---- MODULE Spec2Model ----
(***************************************************************************)
(* A verification model of these pieces of the A/B Street code base:       *)
(*   - Viewer::trace_root_cause / Viewer::arrow_for                         *)
(*       (game/src/debug/blocked_by.rs)                                     *)
(*   - Lane::get_turn_restrictions, Lane::number_parking_spots and          *)
(*     Lane::trace_around_block, Lane::endpoint and Lane::end_line          *)
(*     (map_model/src/objects/lane.rs)                                      *)
(*   - the driver loop of headless (headless/src/main.rs)                   *)
(* Each piece has its own variables, initial condition, actions and         *)
(* specification; the variables of the other pieces stay at their idle      *)
(* values.                                                                  *)
(***************************************************************************)
EXTENDS Integers, Sequences, FiniteSets, TLC

VARIABLES
    \* blocked_by.rs: the Viewer and one call of trace_root_cause
    graph,            \* Viewer.graph: AgentID -> DelayCause (or no entry)
    agent_positions,  \* Viewer.agent_positions: the agents that have a position
    start,            \* the argument of trace_root_cause
    current,          \* local `current`
    seen,             \* local `seen`
    batch,            \* local `batch`: the arrows pushed so far
    reason,           \* local `reason`
    rc_edges,         \* how many times `current = *a` has run in this call
    rc_pc,            \* "idle" | "loop" | "done" | "panic"
    \* lane.rs: one call of Lane::get_turn_restrictions(road)
    tr_children,      \* road.children(dir): the lane types, in order
    tr_self,          \* the position of self.id in road.children(dir)
    tr_dir,           \* road.dir(self.id)
    tr_tags,          \* road.osm_tags
    tr_result,        \* the value returned
    tr_pc,            \* "idle" | "ready" | "done"
    \* lane.rs: one call of Lane::number_parking_spots
    pk_lane_type,     \* self.lane_type
    pk_length,        \* self.length(), in LengthUnit-ths of a metre
    pk_result,        \* the value returned
    pk_pc,            \* "idle" | "ready" | "done" | "panic"
    \* lane.rs: the Map and one call of Lane::trace_around_block(map)
    bl_roads,         \* map.all_roads(): src_i, dst_i, is_footway, lanes_ltr
    bl_sorted,        \* get_roads_sorted_by_incoming_angle, per intersection
    bl_start,         \* local `start` (self.id)
    bl_current,       \* local `current`
    bl_fwd,           \* local `fwd`
    bl_visited,       \* local `visited`
    bl_pts,           \* local `pts`: the lanes whose points were appended
    bl_iters,         \* how many iterations of the loop have run
    bl_result,        \* the value returned
    bl_pc,            \* "idle" | "ready" | "loop" | "closed" | "returned" |
                      \* "failed_revisit" | "failed_ring" | "panic"
    \* headless/src/main.rs: one run of main
    hd_flag,          \* flags.save_at: no flag, or the characters of the string
    hd_save_at,       \* local `save_at`
    hd_time,          \* sim.time
    hd_entry_time,    \* sim.time when the loop was entered
    hd_steps,         \* how many times sim.step has been called
    hd_saves,         \* how many times sim.save has been called
    hd_events,        \* the calls made in the current iteration, in order
    hd_pc,            \* "idle" | "parse" | "step" | "status" | "snapshot" | "panic"
    \* lane.rs: one call of Lane::endpoint(i) or Lane::end_line(i)
    ep_src_i,         \* self.src_i
    ep_dst_i,         \* self.dst_i
    ep_i,             \* the argument i
    ep_fn,            \* which of the two functions is called
    ep_result,        \* the value returned
    ep_pc             \* "idle" | "ready" | "done" | "panic"

rcVars ==
    <<graph, agent_positions, start, current, seen, batch, reason, rc_edges, rc_pc>>

trVars == <<tr_children, tr_self, tr_dir, tr_tags, tr_result, tr_pc>>

pkVars == <<pk_lane_type, pk_length, pk_result, pk_pc>>

blVars ==
    <<bl_roads, bl_sorted, bl_start, bl_current, bl_fwd, bl_visited, bl_pts,
      bl_iters, bl_result, bl_pc>>

hdVars ==
    <<hd_flag, hd_save_at, hd_time, hd_entry_time, hd_steps, hd_saves, hd_events, hd_pc>>

epVars == <<ep_src_i, ep_dst_i, ep_i, ep_fn, ep_result, ep_pc>>

vars == <<rcVars, trVars, pkVars, blVars, hdVars, epVars>>

(***************************************************************************)
(* Blocking graph and root-cause tracer (blocked_by.rs)                    *)
(***************************************************************************)

\* Bounds of the model: how many agents and intersections a snapshot names.
MaxAgents == 3
MaxIntersections == 2

Agents == 1..MaxAgents
IntersectionIDs == 1..MaxIntersections

\* sim::DelayCause, plus the absence of a key in the BTreeMap.
NoEntry == [kind |-> "None", id |-> 0]
AgentCause(a) == [kind |-> "Agent", id |-> a]
IntersectionCause(i) == [kind |-> "Intersection", id |-> i]

DelayCause ==
    {AgentCause(a) : a \in Agents} \cup {IntersectionCause(i) : i \in IntersectionIDs}

\* Every BTreeMap<AgentID, (Duration, DelayCause)> over the bounded ids; the
\* Duration is never read by the tracer.
Graphs == [Agents -> DelayCause \cup {NoEntry}]

HasEntry(g, a) == g[a] # NoEntry

\* The terminal reasons, as the three format strings build them.
NoReason == [kind |-> "pending", id |-> 0]
CycleReason(a) == [kind |-> "cycle involving", id |-> a]
IntersectionReason(i) == [kind |-> "IntersectionID", id |-> i]
AgentReason(a) == [kind |-> "AgentID", id |-> a]

\* Option<(Polygon, Color)> of arrow_for, and the panic of the index
\* self.agent_positions[&id] on a missing key.
ArrowNone == [tag |-> "None", from |-> 0, to |-> NoEntry]
ArrowPanic == [tag |-> "Panic", from |-> 0, to |-> NoEntry]
ArrowSome(id, cause) == [tag |-> "Some", from |-> id, to |-> cause]

arrow_forNeverSkipping(id) ==
    LET cause == graph[id] IN
    IF cause = NoEntry THEN ArrowNone
    ELSE IF id \notin agent_positions THEN ArrowPanic
    ELSE ArrowSome(id, cause)

arrow_for(id) ==
    LET cause == graph[id] IN
    IF cause = NoEntry THEN ArrowNone
    ELSE IF cause.kind = "Agent" /\ cause.id \notin agent_positions THEN ArrowNone
    ELSE IF id \notin agent_positions THEN ArrowPanic
    ELSE ArrowSome(id, cause)

\* The cycle guard at the top of the loop.
AlreadySeenNever(a, s) == FALSE

AlreadySeenButStart(a, s) == a \in s \ {start}

AlreadySeen(a, s) == a \in s

\* The two arms of `match self.graph.get(&current)` that end the loop.
TerminalReasonAlwaysAgent(cause, cur) == AgentReason(cur)

TerminalReasonOfStart(cause, cur) ==
    IF cause.kind = "Intersection" THEN IntersectionReason(cause.id)
    ELSE AgentReason(start)

TerminalReason(cause, cur) ==
    IF cause.kind = "Intersection" THEN IntersectionReason(cause.id)
    ELSE AgentReason(cur)

\* The data-model invariant of a snapshot: every key of the graph is an agent
\* active at the snapshot tick, so it has a position.  Blocking agents that
\* are not keys may be gone.
SnapshotConsistent(g, pos) == \A a \in Agents : HasEntry(g, a) => a \in pos

RootCauseIdle ==
    /\ start = 0
    /\ current = 0
    /\ seen = {}
    /\ batch = <<>>
    /\ reason = NoReason
    /\ rc_edges = 0
    /\ rc_pc = "idle"

\* No Viewer exists.
RootCauseOff ==
    /\ graph = [a \in Agents |-> NoEntry]
    /\ agent_positions = {}
    /\ RootCauseIdle

\* No call of get_turn_restrictions is under way.
TurnOff ==
    /\ tr_children = <<>>
    /\ tr_self = 0
    /\ tr_dir = "Fwd"
    /\ tr_tags = <<>>
    /\ tr_result = [tag |-> "None", set |-> {}]
    /\ tr_pc = "idle"

\* No call of number_parking_spots is under way.
ParkingOff ==
    /\ pk_lane_type = "Parking"
    /\ pk_length = 0
    /\ pk_result = 0
    /\ pk_pc = "idle"

\* No call of trace_around_block is under way.
BlockOff ==
    /\ bl_roads = <<>>
    /\ bl_sorted = <<>>
    /\ bl_start = <<0, 0>>
    /\ bl_current = <<0, 0>>
    /\ bl_fwd = FALSE
    /\ bl_visited = {}
    /\ bl_pts = <<>>
    /\ bl_iters = 0
    /\ bl_result = [tag |-> "None", visited |-> {}]
    /\ bl_pc = "idle"

HeadlessOff ==
    /\ hd_flag = [tag |-> "None", str |-> <<>>]
    /\ hd_save_at = [tag |-> "None", t |-> 0]
    /\ hd_time = 0
    /\ hd_entry_time = 0
    /\ hd_steps = 0
    /\ hd_saves = 0
    /\ hd_events = <<>>
    /\ hd_pc = "idle"

EndpointOff ==
    /\ ep_src_i = 0
    /\ ep_dst_i = 0
    /\ ep_i = 0
    /\ ep_fn = "endpoint"
    /\ ep_result = [of |-> "none", side |-> "none", reversed |-> FALSE]
    /\ ep_pc = "idle"

\* Viewer::new: the snapshot of the graph and of the positions.
InitRootCause ==
    /\ graph \in Graphs
    /\ agent_positions \in SUBSET Agents
    /\ SnapshotConsistent(graph, agent_positions)
    /\ RootCauseIdle
    /\ TurnOff
    /\ ParkingOff
    /\ BlockOff
    /\ HeadlessOff
    /\ EndpointOff

\* trace_root_cause(app, start): entry, up to the loop.
TraceBegin ==
    /\ rc_pc \in {"idle", "done"}
    /\ \E s \in Agents :
        /\ start' = s
        /\ current' = s
    /\ seen' = {}
    /\ batch' = <<>>
    /\ reason' = NoReason
    /\ rc_edges' = 0
    /\ rc_pc' = "loop"
    /\ UNCHANGED <<graph, agent_positions>>
    /\ UNCHANGED <<trVars, pkVars, blVars, hdVars, epVars>>

\* One iteration of the loop of trace_root_cause.
TraceStep ==
    /\ rc_pc = "loop"
    /\ IF AlreadySeen(current, seen)
       THEN /\ reason' = CycleReason(current)
            /\ rc_pc' = "done"
            /\ UNCHANGED <<current, seen, batch, rc_edges>>
       ELSE LET arrow == arrow_for(current) IN
            /\ seen' = seen \cup {current}
            /\ IF arrow = ArrowPanic
               THEN /\ rc_pc' = "panic"
                    /\ UNCHANGED <<current, batch, reason, rc_edges>>
               ELSE /\ batch' = IF arrow = ArrowNone THEN batch ELSE Append(batch, arrow)
                    /\ IF graph[current].kind = "Agent"
                       THEN /\ current' = graph[current].id
                            /\ rc_edges' = rc_edges + 1
                            /\ UNCHANGED <<reason, rc_pc>>
                       ELSE /\ reason' = TerminalReason(graph[current], current)
                            /\ rc_pc' = "done"
                            /\ UNCHANGED <<current, rc_edges>>
    /\ UNCHANGED <<graph, agent_positions, start>>
    /\ UNCHANGED <<trVars, pkVars, blVars, hdVars, epVars>>

NextRootCause == TraceBegin \/ TraceStep

SpecRootCause == InitRootCause /\ [][NextRootCause]_vars

\* Viewer::new as coded: the graph and the positions come from two calls of
\* the simulation and nothing relates the keys of the one to the other.
InitRootCauseAny ==
    /\ graph \in Graphs
    /\ agent_positions \in SUBSET Agents
    /\ RootCauseIdle
    /\ TurnOff
    /\ ParkingOff
    /\ BlockOff
    /\ HeadlessOff
    /\ EndpointOff

SpecRootCauseAny == InitRootCauseAny /\ [][NextRootCause]_vars

(***************************************************************************)
(* Properties of the root-cause tracer                                     *)
(***************************************************************************)

\* The chain of Agent -> Agent edges from the last agent of `path`, extended
\* until an agent with no Agent cause or an agent already on the path.
RECURSIVE ChainFrom(_, _)
ChainFrom(g, path) ==
    LET last == path[Len(path)] IN
    IF g[last].kind # "Agent" THEN path
    ELSE IF \E k \in 1..Len(path) : path[k] = g[last].id THEN path
    ELSE ChainFrom(g, Append(path, g[last].id))

Chain == ChainFrom(graph, <<start>>)
ChainEnd == Chain[Len(Chain)]

\* The chain runs into an agent that is already on it.
ChainRevisits == graph[ChainEnd].kind = "Agent"

\* The agent reached after k Agent -> Agent edges from a, or 0 when the
\* chain ends before.
RECURSIVE AfterEdges(_, _, _)
AfterEdges(g, a, k) ==
    IF k = 0 THEN a
    ELSE IF g[a].kind # "Agent" THEN 0
    ELSE AfterEdges(g, g[a].id, k - 1)

OnAgentCycle(g, a) == \E k \in 1..MaxAgents : AfterEdges(g, a, k) = a
ReachableFrom(g, a, b) == \E k \in 0..MaxAgents : AfterEdges(g, a, k) = b

GraphKeys == {a \in Agents : HasEntry(graph, a)}

\* One hop per visited agent that has a graph entry.
Hops == Cardinality({a \in seen : HasEntry(graph, a)})

\* C1: for every blocking graph and every start agent the loop of
\* trace_root_cause follows at most N Agent -> Agent edges, N being the number
\* of agents with an entry in the graph.  Every iteration that does not end
\* the call follows one edge, so the call ends within N + 1 iterations.
C1_AtMostNEdges ==
    /\ rc_edges <= Cardinality(GraphKeys)
    /\ rc_pc = "loop" => Cardinality(seen) = rc_edges
    /\ rc_pc = "idle" \/ Cardinality(seen) <= Cardinality(GraphKeys) + 1

\* A call that followed an edge out of every agent of a graph in which all
\* agents have an entry.
C1_Witness ==
    /\ rc_pc = "done"
    /\ GraphKeys = Agents
    /\ rc_edges = MaxAgents

\* C2: the call reports "cycle involving X" exactly when the chain of
\* Agent -> Agent edges from the start runs into an agent already visited; X
\* is that agent, and X lies on a cycle of Agent -> Agent edges reachable
\* from the start.
C2_CycleReported ==
    /\ rc_pc = "loop" => reason = NoReason
    /\ rc_pc = "done" =>
        /\ (reason.kind = "cycle involving") <=> ChainRevisits
        /\ ChainRevisits =>
            /\ reason = CycleReason(graph[ChainEnd].id)
            /\ reason.id \in seen
            /\ OnAgentCycle(graph, reason.id)
            /\ ReachableFrom(graph, start, reason.id)

\* The 3-cycle 1 -> 2 -> 3 -> 1, traced to its end.
C2_Witness ==
    /\ rc_pc = "done"
    /\ graph[1] = AgentCause(2)
    /\ graph[2] = AgentCause(3)
    /\ graph[3] = AgentCause(1)
    /\ reason.kind = "cycle involving"
    /\ reason.id \in {1, 2, 3}

\* C3: when the chain from the start reaches, without a revisit, an agent
\* blocked by intersection I, the call ends with reason I, and both the
\* number of hops and the number of arrows equal the length of the chain.
C3_IntersectionReason ==
    (rc_pc \in {"done", "panic"} /\ graph[ChainEnd].kind = "Intersection") =>
        /\ rc_pc = "done"
        /\ reason = IntersectionReason(graph[ChainEnd].id)
        /\ Hops = Len(Chain)
        /\ Len(batch) = Len(Chain)

\* The chain 1 -> 2 -> intersection 2, traced from 1.
C3_Witness ==
    /\ rc_pc = "done"
    /\ start = 1
    /\ graph[1] = AgentCause(2)
    /\ graph[2] = IntersectionCause(2)
    /\ reason = IntersectionReason(2)
    /\ Hops = 2

\* C4: when the chain from the start reaches, without a revisit, an agent
\* with no entry in the graph, the call ends and reports that agent; that is
\* the start itself when the start has no entry.
C4_MissingEntryReason ==
    (rc_pc \in {"done", "panic"} /\ graph[ChainEnd] = NoEntry) =>
        /\ rc_pc = "done"
        /\ reason = AgentReason(ChainEnd)
        /\ (graph[start] = NoEntry => reason = AgentReason(start))

\* The chain 1 -> 2 -> 3 with no entry for 3, traced from 1.
C4_Witness ==
    /\ rc_pc = "done"
    /\ start = 1
    /\ graph[1] = AgentCause(2)
    /\ graph[2] = AgentCause(3)
    /\ graph[3] = NoEntry
    /\ reason = AgentReason(3)

\* The target of the agent's arrow is known: an intersection, or an agent
\* that has a position.
TargetHasPosition(a) ==
    /\ HasEntry(graph, a)
    /\ graph[a].kind = "Agent" => graph[a].id \in agent_positions

\* The agents visited by the finished call, in order: the whole chain.
VisitedWithEntry == SelectSeq(Chain, LAMBDA a : HasEntry(graph, a))

C16_NeverPanics ==
    /\ rc_pc # "panic"
    /\ rc_pc = "done" => reason # NoReason

(***************************************************************************)
(* Lane::get_turn_restrictions (lane.rs)                                   *)
(***************************************************************************)

\* Bound of the model: how many lanes road.children(dir) holds.
MaxLanes == 2

LaneType ==
    {"Driving", "Parking", "Sidewalk", "Shoulder", "Biking", "Bus",
     "SharedLeftTurn", "Construction", "LightRail"}

Direction == {"Fwd", "Back"}
TurnType == {"Straight", "Left", "Right"}

\* A tag value is a string, held as a sequence of chunks: a chunk is one of
\* the two separator characters or a maximal run of other characters (a
\* word), so no two words are adjacent.  "" is the empty sequence.
Bar == "|"
Semi == ";"

MappedWords ==
    {"left", "left\\left", "right", "through",
     "slight_right", "slight right", "merge_to_right", "sharp_right",
     "slight_left", "slight left", "merge_to_left", "sharp_left", "reverse"}
NoRestrictionWords == {"no", "none", "yes", "psv", "bus"}
\* A word that no match arm names.
UnknownWords == {"foo"}
Words == MappedWords \cup NoRestrictionWords \cup UnknownWords

\* The tag keys that get_turn_restrictions reads.
ENDPT_FWD == "abst:endpt_fwd"
ENDPT_BACK == "abst:endpt_back"
TURN_LANES_FORWARD == "turn:lanes:forward"
TURN_LANES == "turn:lanes"
TURN_LANES_BACKWARD == "turn:lanes:backward"

\* str::split(sep): the pieces between the separators; a string without a
\* separator, the empty one included, is one piece.
RECURSIVE split(_, _)
split(s, sep) ==
    IF \A k \in 1..Len(s) : s[k] # sep THEN <<s>>
    ELSE LET k == CHOOSE k \in 1..Len(s) :
                      s[k] = sep /\ \A j \in 1..(k - 1) : s[j] # sep
         IN <<SubSeq(s, 1, k - 1)>> \o split(SubSeq(s, k + 1, Len(s)), sep)

\* Option<BTreeSet<TurnType>>
NoneResult == [tag |-> "None", set |-> {}]
SomeResult(S) == [tag |-> "Some", set |-> S]
PendingResult == [tag |-> "Pending", set |-> {}]

\* The tokens for which the function returns None before mapping anything.
NoRestrictionPartsWithoutBus == {<<"no">>, <<"none">>, <<"yes">>, <<"psv">>}

NoRestrictionParts == {<<"no">>, <<"none">>, <<"yes">>, <<"psv">>, <<"bus">>}

\* The match inside flat_map: the turn types of one ';'-separated piece.
TurnTypesOfReverseDropped(s) ==
    IF s \in {<<"left">>, <<"left\\left">>} THEN {"Left"}
    ELSE IF s = <<"right">> THEN {"Right"}
    ELSE IF s \in {<<"through">>, <<>>} THEN {"Straight"}
    ELSE IF s \in {<<"slight_right">>, <<"slight right">>, <<"merge_to_right">>,
                   <<"sharp_right">>} THEN {"Straight", "Right"}
    ELSE IF s \in {<<"slight_left">>, <<"slight left">>, <<"merge_to_left">>,
                   <<"sharp_left">>} THEN {"Straight", "Left"}
    ELSE {}

TurnTypesOf(s) ==
    IF s \in {<<"left">>, <<"left\\left">>} THEN {"Left"}
    ELSE IF s = <<"right">> THEN {"Right"}
    ELSE IF s \in {<<"through">>, <<>>} THEN {"Straight"}
    ELSE IF s \in {<<"slight_right">>, <<"slight right">>, <<"merge_to_right">>,
                   <<"sharp_right">>} THEN {"Straight", "Right"}
    ELSE IF s \in {<<"slight_left">>, <<"slight left">>, <<"merge_to_left">>,
                   <<"sharp_left">>} THEN {"Straight", "Left"}
    ELSE IF s = <<"reverse">> THEN {"Left"}
    ELSE {}

\* The tag value the function reads, as an Option: <<>> or <<value>>.
SelectedTagBackFallback(dir, tags) ==
    IF dir = "Fwd" /\ ENDPT_FWD \in DOMAIN tags
    THEN IF TURN_LANES_FORWARD \in DOMAIN tags THEN <<tags[TURN_LANES_FORWARD]>>
         ELSE IF TURN_LANES \in DOMAIN tags THEN <<tags[TURN_LANES]>>
         ELSE <<>>
    ELSE IF dir = "Back" /\ ENDPT_BACK \in DOMAIN tags
    THEN IF TURN_LANES_BACKWARD \in DOMAIN tags THEN <<tags[TURN_LANES_BACKWARD]>>
         ELSE IF TURN_LANES \in DOMAIN tags THEN <<tags[TURN_LANES]>>
         ELSE <<>>
    ELSE <<>>

SelectedTag(dir, tags) ==
    IF dir = "Fwd" /\ ENDPT_FWD \in DOMAIN tags
    THEN IF TURN_LANES_FORWARD \in DOMAIN tags THEN <<tags[TURN_LANES_FORWARD]>>
         ELSE IF TURN_LANES \in DOMAIN tags THEN <<tags[TURN_LANES]>>
         ELSE <<>>
    ELSE IF dir = "Back" /\ ENDPT_BACK \in DOMAIN tags
    THEN IF TURN_LANES_BACKWARD \in DOMAIN tags THEN <<tags[TURN_LANES_BACKWARD]>>
         ELSE <<>>
    ELSE <<>>

\* The ids (positions in children) of the driving and bus lanes, in order.
DrivingOrBusLanes(children) ==
    SelectSeq([i \in 1..Len(children) |-> i],
              LAMBDA i : children[i] = "Driving" \/ children[i] = "Bus")

\* Iterator::position, 1-based; 0 for None.
Position(seq, x) ==
    IF \E j \in 1..Len(seq) : seq[j] = x
    THEN CHOOSE j \in 1..Len(seq) : seq[j] = x /\ \A h \in 1..(j - 1) : seq[h] # x
    ELSE 0

get_turn_restrictions(children, self, dir, tags) ==
    IF children[self] # "Driving" THEN NoneResult
    ELSE LET all == SelectedTag(dir, tags) IN
    IF all = <<>> THEN NoneResult
    ELSE LET parts == split(all[1], Bar)
             lanes == DrivingOrBusLanes(children)
         IN
    IF Len(parts) # Len(lanes) THEN NoneResult
    ELSE LET idx == Position(lanes, self) IN
    IF idx = 0 THEN NoneResult
    ELSE LET part == parts[idx] IN
    IF part \in NoRestrictionParts THEN NoneResult
    ELSE IF part = <<>> THEN NoneResult
    ELSE LET subs == split(part, Semi) IN
         SomeResult(UNION {TurnTypesOf(subs[j]) : j \in 1..Len(subs)})

\* ---- the inputs the model draws ----

LaneTypesDrawn == {"Driving", "Bus", "Parking"}

LaneLists == UNION {[1..n -> LaneTypesDrawn] : n \in 1..MaxLanes}

\* s1 ++ sep ++ s2 ++ ... for a non-empty sequence of strings.
RECURSIVE Join(_, _)
Join(strs, sep) ==
    IF Len(strs) = 1 THEN strs[1]
    ELSE strs[1] \o <<sep>> \o Join(Tail(strs), sep)

PairPieces == {<<>>, <<"left">>, <<"sharp_right">>, <<"foo">>}

\* The tokens drawn for the queried lane's position: every single word, the
\* empty token, and pairs of pieces joined by ';'.
RichTokens ==
    {<<w>> : w \in Words} \cup {<<>>}
    \cup {Join(<<a, b>>, Semi) : a \in PairPieces, b \in PairPieces}

\* The tokens drawn for the other positions.
OtherTokens == {<<"through">>, <<"none">>}

\* Tag values of 1 to MaxLanes + 1 tokens with a rich token at position f
\* (at the last position when there are fewer tokens).
TagValues(f) ==
    {Join([p \in 1..n |-> IF p = (IF f <= n THEN f ELSE n) THEN rich ELSE other], Bar) :
        n \in 1..(MaxLanes + 1), rich \in RichTokens, other \in OtherTokens}

\* The tag maps drawn: the endpoint marker of the lane's own direction is
\* present or not, and at most one of the three turn-lane keys holds a value.
TagMaps(dir, value) ==
    LET marker == IF dir = "Fwd" THEN ENDPT_FWD ELSE ENDPT_BACK IN
    {[k \in (ms \cup ks) |-> IF k \in ks THEN value ELSE <<"true">>] :
        ms \in {{}, {marker}},
        ks \in {{}, {TURN_LANES_FORWARD}, {TURN_LANES}, {TURN_LANES_BACKWARD}}}

\* The position of lane `self` among the driving and bus lanes (1 when the
\* lane is neither).
FocusPosition(children, self) ==
    LET j == Position(DrivingOrBusLanes(children), self) IN
    IF j = 0 THEN 1 ELSE j

InitTurn ==
    /\ tr_children \in LaneLists
    /\ tr_self \in 1..Len(tr_children)
    /\ tr_dir \in Direction
    /\ \E value \in TagValues(FocusPosition(tr_children, tr_self)) :
           tr_tags \in TagMaps(tr_dir, value)
    /\ tr_result = PendingResult
    /\ tr_pc = "ready"
    /\ RootCauseOff
    /\ ParkingOff
    /\ BlockOff
    /\ HeadlessOff
    /\ EndpointOff

\* One call of self.get_turn_restrictions(road).
TurnQuery ==
    /\ tr_pc = "ready"
    /\ tr_result' = get_turn_restrictions(tr_children, tr_self, tr_dir, tr_tags)
    /\ tr_pc' = "done"
    /\ UNCHANGED <<tr_children, tr_self, tr_dir, tr_tags>>
    /\ UNCHANGED <<rcVars, pkVars, blVars, hdVars, epVars>>

NextTurn == TurnQuery

SpecTurn == InitTurn /\ [][NextTurn]_vars

(***************************************************************************)
(* Properties of get_turn_restrictions                                     *)
(***************************************************************************)

\* The queried lane, its side of the road and the road's tags, read
\* directly from the inputs.
TagKeys == DOMAIN tr_tags
QueriedIsDriving == tr_children[tr_self] = "Driving"
SideLaneCount ==
    Cardinality({i \in 1..Len(tr_children) : tr_children[i] \in {"Driving", "Bus"}})
\* The position of the queried lane among the driving and bus lanes.
SidePosition ==
    Cardinality({i \in 1..tr_self : tr_children[i] \in {"Driving", "Bus"}})

\* No turn-lane tag applies to the queried lane's direction.
NoApplicableTag ==
    \/ tr_dir = "Fwd" /\ TURN_LANES_FORWARD \notin TagKeys /\ TURN_LANES \notin TagKeys
    \/ tr_dir = "Back" /\ TURN_LANES_BACKWARD \notin TagKeys

\* The value of the tag that applies, when one does.
ApplicableValue ==
    IF tr_dir = "Back" THEN tr_tags[TURN_LANES_BACKWARD]
    ELSE IF TURN_LANES_FORWARD \in TagKeys THEN tr_tags[TURN_LANES_FORWARD]
    ELSE tr_tags[TURN_LANES]

\* The function read a tag value: the endpoint marker of the lane's
\* direction is present and a tag applies.
TagWasRead ==
    /\ ~NoApplicableTag
    /\ (IF tr_dir = "Fwd" THEN ENDPT_FWD ELSE ENDPT_BACK) \in TagKeys

\* The positions of the '|' characters of a string, and its token count.
BarsOf(s) == {k \in 1..Len(s) : s[k] = Bar}
TokenCount(s) == Cardinality(BarsOf(s)) + 1

\* Token j of a string: the chunks after the (j-1)-th '|' and before the
\* j-th one.
TokenAt(s, j) ==
    LET from == IF j = 1 THEN 0
                ELSE CHOOSE k \in BarsOf(s) :
                         Cardinality({h \in BarsOf(s) : h < k}) = j - 2
        to == IF j = TokenCount(s) THEN Len(s) + 1
              ELSE CHOOSE k \in BarsOf(s) :
                       Cardinality({h \in BarsOf(s) : h < k}) = j - 1
    IN SubSeq(s, from + 1, to - 1)

\* The ';'-separated pieces of a token, as a set of words, "" standing for
\* an empty piece.
PiecesOf(t) ==
    {t[k] : k \in {h \in 1..Len(t) : t[h] # Semi}}
    \cup (IF \/ t = <<>>
             \/ t[1] = Semi
             \/ t[Len(t)] = Semi
             \/ \E k \in 1..(Len(t) - 1) : t[k] = Semi /\ t[k + 1] = Semi
          THEN {""} ELSE {})

\* The table of the claim: the turn types one piece allows.
AllowedBy(w) ==
    CASE w \in {"left", "left\\left"} -> {"Left"}
      [] w = "right" -> {"Right"}
      [] w \in {"through", ""} -> {"Straight"}
      [] w \in {"slight_right", "slight right", "merge_to_right", "sharp_right"} ->
            {"Straight", "Right"}
      [] w \in {"slight_left", "slight left", "merge_to_left", "sharp_left"} ->
            {"Straight", "Left"}
      [] w = "reverse" -> {"Left"}
      [] OTHER -> {}

AllowedByToken(t) == UNION {AllowedBy(w) : w \in PiecesOf(t)}

MatchedToken == TokenAt(ApplicableValue, SidePosition)

CountMatches == TokenCount(ApplicableValue) = SideLaneCount

IsNoRestrictionToken(t) ==
    t = <<>> \/ t \in {<<"no">>, <<"none">>, <<"yes">>, <<"psv">>, <<"bus">>}

\* C5: for a driving lane whose tag has as many tokens as the side has
\* driving/bus lanes, the result is never a present-but-empty set.
C5_NeverEmptySet ==
    (tr_pc = "done" /\ QueriedIsDriving /\ TagWasRead /\ CountMatches) =>
        ~(tr_result.tag = "Some" /\ tr_result.set = {})

\* C6: the result is None when the lane is not a driving lane, when no
\* turn-lane tag applies, when the token count differs from the number of
\* driving/bus lanes of the side, and when the matched token is one of
\* no/none/yes/psv/bus or is empty.
C6_NotApplicableCases ==
    tr_pc = "done" =>
        /\ tr_result.tag \in {"None", "Some"}
        /\ ~QueriedIsDriving => tr_result = NoneResult
        /\ NoApplicableTag => tr_result = NoneResult
        /\ (~NoApplicableTag /\ ~CountMatches) => tr_result = NoneResult
        /\ (~NoApplicableTag /\ CountMatches /\ QueriedIsDriving
              /\ IsNoRestrictionToken(MatchedToken)) => tr_result = NoneResult

\* A driving lane of a two-lane side whose matched token is "bus".
C6_Witness ==
    /\ tr_pc = "done"
    /\ QueriedIsDriving
    /\ TagWasRead
    /\ SideLaneCount = 2
    /\ CountMatches
    /\ MatchedToken = <<"bus">>
    /\ tr_result = NoneResult

\* C7 as stated: whenever the token count matches, the result of a driving
\* lane is the set its own token maps to.
C7_UnionOfTokenAsStated ==
    (tr_pc = "done" /\ QueriedIsDriving /\ TagWasRead /\ CountMatches) =>
        tr_result = SomeResult(AllowedByToken(MatchedToken))

\* C7, amended: whenever the token count matches and the matched token is
\* neither empty nor one of no/none/yes/psv/bus, the result of a driving lane
\* is the set its own token maps to, whatever the other tokens are.
C7_UnionOfToken ==
    (tr_pc = "done" /\ QueriedIsDriving /\ TagWasRead /\ CountMatches
       /\ ~IsNoRestrictionToken(MatchedToken)) =>
        tr_result = SomeResult(AllowedByToken(MatchedToken))

\* The second lane of a two-lane driving road tagged "through|left" gets
\* exactly {Left}.
C7_Witness ==
    /\ tr_pc = "done"
    /\ tr_children = <<"Driving", "Driving">>
    /\ tr_self = 2
    /\ TagWasRead
    /\ ApplicableValue = <<"through", Bar, "left">>
    /\ tr_result = SomeResult({"Left"})

\* ---- tag-key selection: roads that carry several turn-lane tags ----

\* One driving lane on the side, next to a parking lane or not.
KeyLaneLists == {<<"Driving">>, <<"Driving", "Parking">>, <<"Parking", "Driving">>}

\* One-token values, a different one per key telling the keys apart.
KeyValues == {<<"left">>, <<"right">>, <<"through">>}

EndpointMarkers == {ENDPT_FWD, ENDPT_BACK}
TurnLaneKeys == {TURN_LANES_FORWARD, TURN_LANES, TURN_LANES_BACKWARD}

\* Every set of endpoint markers, and every set of turn-lane keys with every
\* choice of values.
KeyTagMaps ==
    UNION {{f \in [ms \cup ks -> KeyValues \cup {<<"true">>}] :
                /\ \A k \in ms : f[k] = <<"true">>
                /\ \A k \in ks : f[k] \in KeyValues} :
           ms \in SUBSET EndpointMarkers, ks \in SUBSET TurnLaneKeys}

InitTurnKeys ==
    /\ tr_children \in KeyLaneLists
    /\ tr_self \in {i \in 1..Len(tr_children) : tr_children[i] = "Driving"}
    /\ tr_dir \in Direction
    /\ tr_tags \in KeyTagMaps
    /\ tr_result = PendingResult
    /\ tr_pc = "ready"
    /\ RootCauseOff
    /\ ParkingOff
    /\ BlockOff
    /\ HeadlessOff
    /\ EndpointOff

SpecTurnKeys == InitTurnKeys /\ [][NextTurn]_vars

\* What the call returns when it takes its token from the tag `key`.
ResultFrom(key) == SomeResult(AllowedByToken(tr_tags[key]))

\* C15 as stated: a forward lane reads the forward tag, and the combined tag
\* only when the forward tag is absent and the forward-endpoint marker is
\* present; a backward lane reads the backward tag and nothing else.
C15_TagKeySelectionAsStated ==
    tr_pc = "done" =>
        IF tr_dir = "Fwd"
        THEN IF TURN_LANES_FORWARD \in TagKeys THEN tr_result = ResultFrom(TURN_LANES_FORWARD)
             ELSE IF TURN_LANES \in TagKeys /\ ENDPT_FWD \in TagKeys
             THEN tr_result = ResultFrom(TURN_LANES)
             ELSE tr_result = NoneResult
        ELSE IF TURN_LANES_BACKWARD \in TagKeys
             THEN tr_result = ResultFrom(TURN_LANES_BACKWARD)
             ELSE tr_result = NoneResult

\* C15, amended: a forward lane reads a tag only on a road that carries the
\* forward-endpoint marker, the forward tag when present and else the
\* combined tag; a backward lane reads the backward tag, and only on a road
\* that carries the backward-endpoint marker; it never reads the combined
\* tag.
C15_TagKeySelection ==
    tr_pc = "done" =>
        IF tr_dir = "Fwd"
        THEN IF ENDPT_FWD \notin TagKeys THEN tr_result = NoneResult
             ELSE IF TURN_LANES_FORWARD \in TagKeys
             THEN tr_result = ResultFrom(TURN_LANES_FORWARD)
             ELSE IF TURN_LANES \in TagKeys THEN tr_result = ResultFrom(TURN_LANES)
             ELSE tr_result = NoneResult
        ELSE IF ENDPT_BACK \in TagKeys /\ TURN_LANES_BACKWARD \in TagKeys
             THEN tr_result = ResultFrom(TURN_LANES_BACKWARD)
             ELSE tr_result = NoneResult

\* A backward lane on a road with both markers, the combined tag "right" and
\* the backward tag "left": the result comes from the backward tag.
C15_Witness ==
    /\ tr_pc = "done"
    /\ tr_dir = "Back"
    /\ TagKeys = {ENDPT_FWD, ENDPT_BACK, TURN_LANES, TURN_LANES_BACKWARD}
    /\ tr_tags[TURN_LANES] = <<"right">>
    /\ tr_tags[TURN_LANES_BACKWARD] = <<"left">>
    /\ tr_result = SomeResult({"Left"})

(***************************************************************************)
(* Lane::number_parking_spots (lane.rs)                                    *)
(***************************************************************************)

\* Lengths are whole decimetres.  PARKING_SPOT_LENGTH is 8.0 m.
PARKING_SPOT_LENGTH == 80

\* Bound of the model: the longest lane, in decimetres.
MaxLength == 400

\* The usize returned, or the panic of assert_eq!.
SpotsPanic == -1

number_parking_spotsStrictlyMoreThanOne(lane_type, length) ==
    IF lane_type # "Parking" THEN SpotsPanic
    ELSE LET spots == (length \div PARKING_SPOT_LENGTH) - 2 IN
         IF spots > 1 THEN spots ELSE 0

number_parking_spots(lane_type, length) ==
    IF lane_type # "Parking" THEN SpotsPanic
    ELSE LET spots == (length \div PARKING_SPOT_LENGTH) - 2 IN
         IF spots >= 1 THEN spots ELSE 0

InitParking ==
    /\ pk_lane_type \in LaneType
    /\ pk_length \in 0..MaxLength
    /\ pk_result = 0
    /\ pk_pc = "ready"
    /\ RootCauseOff
    /\ TurnOff
    /\ BlockOff
    /\ HeadlessOff
    /\ EndpointOff

\* One call of self.number_parking_spots().
ParkingQuery ==
    /\ pk_pc = "ready"
    /\ LET r == number_parking_spots(pk_lane_type, pk_length) IN
        /\ pk_result' = r
        /\ pk_pc' = IF r = SpotsPanic THEN "panic" ELSE "done"
    /\ UNCHANGED <<pk_lane_type, pk_length>>
    /\ UNCHANGED <<rcVars, trVars, blVars, hdVars, epVars>>

NextParking == ParkingQuery

SpecParking == InitParking /\ [][NextParking]_vars

(***************************************************************************)
(* Properties of number_parking_spots                                      *)
(***************************************************************************)

\* floor(L / 8.0): the largest whole number of spot lengths that fit in L.
WholeSpotLengths(L) ==
    CHOOSE q \in 0..L : q * PARKING_SPOT_LENGTH <= L /\ L < (q + 1) * PARKING_SPOT_LENGTH

\* C8: for a parking lane of length L the result is max(0, floor(L/8.0) - 2);
\* it is at least the result of every shorter parking lane, it is 0 for
\* L <= 2 x 8.0 and it is 1 for L = 25.0.
C8_ParkingSpots ==
    (pk_pc \in {"done", "panic"} /\ pk_lane_type = "Parking") =>
        /\ pk_pc = "done"
        /\ pk_result =
             (IF WholeSpotLengths(pk_length) - 2 > 0
              THEN WholeSpotLengths(pk_length) - 2 ELSE 0)
        /\ \A shorter \in 0..pk_length :
               number_parking_spots("Parking", shorter) <= pk_result
        /\ pk_length <= 2 * PARKING_SPOT_LENGTH => pk_result = 0
        /\ pk_length = 250 => pk_result = 1

\* The parking lane of 25.0 m, with its one spot.
C8_Witness ==
    /\ pk_pc = "done"
    /\ pk_lane_type = "Parking"
    /\ pk_length = 250
    /\ pk_result = 1

(***************************************************************************)
(* Lane::trace_around_block (lane.rs)                                      *)
(***************************************************************************)

\* Bound of the model: how many roads, and how many intersections, the map
\* holds.
MaxRoads == 2

RoadIDs == 1..MaxRoads
MapIntersections == 1..MaxRoads

\* The walk reads only the leftmost and the rightmost lane of a road, so
\* roads of one and of two lanes show every case.
LaneCounts == {1, 2}

\* A road: its endpoints, is_footway(), and lanes_ltr() as the direction of
\* each lane, left to right.  A LaneID is <<road, position in lanes_ltr>>.
RoadRecords ==
    {[src_i |-> a, dst_i |-> b, footway |-> f, lanes_ltr |-> ls] :
        a \in MapIntersections, b \in MapIntersections, f \in BOOLEAN,
        ls \in UNION {[1..n -> Direction] : n \in LaneCounts}}

NoLane == <<0, 0>>

\* Lane.parent, Lane.src_i, Lane.dst_i: a forward lane runs from the road's
\* src_i to its dst_i, a backward lane the other way.
LaneParent(l) == l[1]
LaneSrc(roads, l) ==
    IF roads[l[1]].lanes_ltr[l[2]] = "Fwd" THEN roads[l[1]].src_i ELSE roads[l[1]].dst_i
LaneDst(roads, l) ==
    IF roads[l[1]].lanes_ltr[l[2]] = "Fwd" THEN roads[l[1]].dst_i ELSE roads[l[1]].src_i

\* road.lanes_ltr()[0].0 and road.lanes_ltr().last().unwrap().0
FirstLane(r) == <<r, 1>>
LastLane(roads, r) == <<r, Len(roads[r].lanes_ltr)>>

AllLanes(roads) == UNION {{<<r, j>> : j \in 1..Len(roads[r].lanes_ltr)} : r \in RoadIDs}

\* roads.retain(|r| !map.get_r(*r).is_footway())
RetainNotFootway(roads, rs) == SelectSeq(rs, LAMBDA r : ~roads[r].footway)

\* wraparound_get(&roads, idx + 1), idx being the 0-based index of the
\* element at 1-based position p.
wraparound_get_next(rs, p) == rs[(p % Len(rs)) + 1]

\* `let i = if fwd { l.dst_i } else { l.src_i }`
PointedIntersection(roads, cur, fwd) ==
    IF fwd THEN LaneDst(roads, cur) ELSE LaneSrc(roads, cur)

\* next_lane; NoLane when position(..).unwrap() panics.
NextLane(roads, sorted, cur, fwd) ==
    LET i == PointedIntersection(roads, cur, fwd)
        rs == RetainNotFootway(roads, sorted[i])
        idx == Position(rs, LaneParent(cur))
    IN IF idx = 0 THEN NoLane
       ELSE LET next_road == wraparound_get_next(rs, idx) IN
            IF roads[next_road].src_i = i THEN FirstLane(next_road)
            ELSE LastLane(roads, next_road)

\* `if visited.contains(&current)`
RevisitedNever(cur, visited) == FALSE

Revisited(cur, visited) == cur \in visited

\* Option<(Polygon, BTreeSet<LaneID>)>; the polygon is not modelled.
BlockNone == [tag |-> "None", visited |-> {}]
BlockSome(visited) == [tag |-> "Some", visited |-> visited]

\* ---- the maps the model draws ----

IncidentRoads(roads, i) == {r \in RoadIDs : roads[r].src_i = i \/ roads[r].dst_i = i}

MinOf(S) == CHOOSE x \in S : \A y \in S : x <= y

\* The orders get_roads_sorted_by_incoming_angle can give the roads S, one
\* per cyclic order (the list starts at the road with the least id).
OrdersOf(S) ==
    IF S = {} THEN {<<>>}
    ELSE {f \in [1..Cardinality(S) -> S] :
            /\ f[1] = MinOf(S)
            /\ \A j, k \in 1..Cardinality(S) : j # k => f[j] # f[k]}

\* One order for each of the intersections 1..k.
RECURSIVE SortedChoices(_, _)
SortedChoices(roads, k) ==
    IF k = 0 THEN {<<>>}
    ELSE {Append(prev, o) :
            prev \in SortedChoices(roads, k - 1), o \in OrdersOf(IncidentRoads(roads, k))}

\* The maps: road 1, the road of the start lane, runs from intersection 1 to
\* intersection 2; no road is a loop.
InitBlock ==
    /\ \E first \in {rec \in RoadRecords : rec.src_i = 1 /\ rec.dst_i = 2},
          rest \in [RoadIDs \ {1} -> {rec \in RoadRecords : rec.src_i # rec.dst_i}] :
           bl_roads = [r \in RoadIDs |-> IF r = 1 THEN first ELSE rest[r]]
    /\ bl_sorted \in SortedChoices(bl_roads, MaxRoads)
    /\ bl_start \in {<<1, j>> : j \in 1..Len(bl_roads[1].lanes_ltr)}
    /\ bl_current = NoLane
    /\ bl_fwd = FALSE
    /\ bl_visited = {}
    /\ bl_pts = <<>>
    /\ bl_iters = 0
    /\ bl_result = BlockNone
    /\ bl_pc = "ready"
    /\ RootCauseOff
    /\ TurnOff
    /\ ParkingOff
    /\ HeadlessOff
    /\ EndpointOff

\* trace_around_block(map): entry, up to the loop.
BlockBegin ==
    /\ bl_pc = "ready"
    /\ bl_current' = bl_start
    /\ bl_fwd' = (FirstLane(LaneParent(bl_start)) = bl_start)
    /\ bl_visited' = {}
    /\ bl_pts' = <<>>
    /\ bl_pc' = "loop"
    /\ UNCHANGED <<bl_roads, bl_sorted, bl_start, bl_iters, bl_result>>
    /\ UNCHANGED <<rcVars, trVars, pkVars, hdVars, epVars>>

\* One iteration of the loop of trace_around_block.
BlockStep ==
    /\ bl_pc = "loop"
    /\ bl_iters' = bl_iters + 1
    /\ bl_pts' = Append(bl_pts, bl_current)
    /\ LET i == PointedIntersection(bl_roads, bl_current, bl_fwd)
           next_lane == NextLane(bl_roads, bl_sorted, bl_current, bl_fwd)
       IN
       IF next_lane = NoLane
       THEN /\ bl_pc' = "panic"
            /\ UNCHANGED <<bl_current, bl_fwd, bl_visited, bl_result>>
       ELSE IF next_lane = bl_start
       THEN /\ bl_pc' = "closed"
            /\ UNCHANGED <<bl_current, bl_fwd, bl_visited, bl_result>>
       ELSE IF Revisited(bl_current, bl_visited)
       THEN /\ bl_pc' = "failed_revisit"
            /\ bl_result' = BlockNone
            /\ UNCHANGED <<bl_current, bl_fwd, bl_visited>>
       ELSE /\ bl_visited' = bl_visited \cup {bl_current}
            /\ bl_current' = next_lane
            /\ bl_fwd' = (LaneSrc(bl_roads, next_lane) = i)
            /\ UNCHANGED <<bl_result, bl_pc>>
    /\ UNCHANGED <<bl_roads, bl_sorted, bl_start>>
    /\ UNCHANGED <<rcVars, trVars, pkVars, hdVars, epVars>>

\* After the loop: the ring is built from the points, which Ring::new
\* accepts or refuses.
BlockFinish ==
    /\ bl_pc = "closed"
    /\ \E ring_ok \in BOOLEAN :
        IF ring_ok
        THEN bl_result' = BlockSome(bl_visited) /\ bl_pc' = "returned"
        ELSE bl_result' = BlockNone /\ bl_pc' = "failed_ring"
    /\ UNCHANGED <<bl_roads, bl_sorted, bl_start, bl_current, bl_fwd, bl_visited,
                   bl_pts, bl_iters>>
    /\ UNCHANGED <<rcVars, trVars, pkVars, hdVars, epVars>>

NextBlock == BlockBegin \/ BlockStep \/ BlockFinish

SpecBlock == InitBlock /\ [][NextBlock]_vars

(***************************************************************************)
(* Properties of trace_around_block                                        *)
(***************************************************************************)

NumLanes == Cardinality(AllLanes(bl_roads))

\* The lanes the walk has stood on, in order, as a set.
Traversed == {bl_pts[k] : k \in 1..Len(bl_pts)}

BlockDone == bl_pc \in {"returned", "failed_revisit", "failed_ring"}

\* C9: while its lookups succeed the loop of trace_around_block ends: every
\* iteration that does not end it puts a lane into `visited` that was not
\* there, so no more than (number of lanes + 1) iterations run; the loop is
\* left either because the next lane is the start lane, or with failure
\* because the current lane is already in `visited`.
C9_LoopTerminates ==
    /\ bl_iters <= NumLanes + 1
    /\ bl_visited \subseteq AllLanes(bl_roads)
    /\ bl_pc = "loop" => Cardinality(bl_visited) = bl_iters
    /\ bl_pc \in {"closed", "returned", "failed_ring"} =>
           NextLane(bl_roads, bl_sorted, bl_current, bl_fwd) = bl_start
    /\ bl_pc = "failed_revisit" =>
           /\ bl_current \in bl_visited
           /\ NextLane(bl_roads, bl_sorted, bl_current, bl_fwd) # bl_start
           /\ bl_result = BlockNone

\* A walk that does not come back to the start lane and is ended by the
\* visited set after more than two iterations.
C9_Witness ==
    /\ bl_pc = "failed_revisit"
    /\ bl_iters > 2
    /\ bl_start \notin {bl_pts[k] : k \in 2..Len(bl_pts)}

\* Every intersection joins exactly two roads, none of them a footway, and
\* the roads hang together: the roads form one simple ring.
RECURSIVE RingReach(_, _)
RingReach(roads, S) ==
    LET T == S \cup {i \in MapIntersections :
                        \E r \in RoadIDs :
                            {roads[r].src_i, roads[r].dst_i} \cap S # {}
                            /\ i \in {roads[r].src_i, roads[r].dst_i}}
    IN IF T = S THEN S ELSE RingReach(roads, T)

SimpleRing(roads) ==
    /\ \A r \in RoadIDs : ~roads[r].footway
    /\ \A i \in MapIntersections : Cardinality(IncidentRoads(roads, i)) = 2
    /\ RingReach(roads, {1}) = MapIntersections

OuterLane(roads, l) == l = FirstLane(LaneParent(l)) \/ l = LastLane(roads, LaneParent(l))

\* C10: on a simple ring of N roads, started from an outer lane, the trace
\* succeeds (the ring of points being valid), the walk stands on exactly N-1
\* lanes other than the start lane, and the returned set holds every lane the
\* walk stood on, the last one before closing included.
C10_SimpleRingTraced ==
    (/\ SimpleRing(bl_roads)
     /\ OuterLane(bl_roads, bl_start)
     /\ bl_pc \in {"returned", "failed_revisit", "panic"})
    => /\ bl_pc = "returned"
       /\ bl_result.tag = "Some"
       /\ Cardinality(Traversed \ {bl_start}) = MaxRoads - 1
       /\ bl_result.visited = Traversed

(***************************************************************************)
(* The headless driver (headless/src/main.rs)                              *)
(***************************************************************************)

\* Bounds of the model: the longest --save_at string, the latest time a
\* loaded simulation starts at, and the time up to which the loop is run.
MaxTimeStrLen == 2
MaxStartTime == 2
MaxTime == 670

\* The characters the drawn --save_at strings are made of: two digits and
\* one character that is not a digit.
DigitChars == {"0", "1", "2", "3", "4", "5", "6", "7", "8", "9"}
TimeChars == {"0", "6", "x"}
TimeStrings == UNION {[1..n -> TimeChars] : n \in 0..MaxTimeStrLen}

\* Option<String> / Option<Tick>
NoFlag == [tag |-> "None", str |-> <<>>]
SomeFlag(str) == [tag |-> "Some", str |-> str]
NoTick == [tag |-> "None", t |-> 0]
SomeTick(t) == [tag |-> "Some", t |-> t]

\* sim::Tick::from_seconds: a tick is a tenth of a second.
TICKS_PER_SECOND == 10
from_seconds(secs) == secs * TICKS_PER_SECOND

\* sim::Tick::is_multiple_of
is_multiple_of(t, interval) == t % interval = 0

\* sim::Tick::parse, for strings of whole seconds: a non-empty string of
\* decimal digits is that many seconds, any other string does not parse.
DigitValue(c) ==
    CASE c = "0" -> 0 [] c = "1" -> 1 [] c = "2" -> 2 [] c = "3" -> 3 [] c = "4" -> 4
      [] c = "5" -> 5 [] c = "6" -> 6 [] c = "7" -> 7 [] c = "8" -> 8 [] c = "9" -> 9
      [] OTHER -> 0

RECURSIVE DecimalValue(_)
DecimalValue(str) ==
    IF str = <<>> THEN 0
    ELSE 10 * DecimalValue(SubSeq(str, 1, Len(str) - 1)) + DigitValue(str[Len(str)])

ParsesAsTick(str) == str # <<>> /\ \A k \in 1..Len(str) : str[k] \in DigitChars

parse(str) ==
    IF ParsesAsTick(str) THEN SomeTick(from_seconds(DecimalValue(str))) ELSE NoTick

\* `let save_at = if let Some(ref time_str) = flags.save_at { .. }`: the
\* value of save_at and whether main goes on to the loop or panics.
parse_save_atIgnoringFailure(flag) ==
    IF flag.tag = "None" THEN [save_at |-> NoTick, pc |-> "step"]
    ELSE [save_at |-> parse(flag.str), pc |-> "step"]

parse_save_at(flag) ==
    IF flag.tag = "None" THEN [save_at |-> NoTick, pc |-> "step"]
    ELSE IF parse(flag.str).tag = "Some"
    THEN [save_at |-> parse(flag.str), pc |-> "step"]
    ELSE [save_at |-> NoTick, pc |-> "panic"]

\* `Some(sim.time) == save_at`
SnapshotDueWithoutTarget(time, save_at) == save_at.tag = "None" \/ time = save_at.t

SnapshotDue(time, save_at) == save_at.tag = "Some" /\ time = save_at.t

\* main up to the parse of the flag: the simulation is loaded, at time zero
\* or at the time of the savestate.
InitHeadless ==
    /\ hd_flag \in {NoFlag} \cup {SomeFlag(str) : str \in TimeStrings}
    /\ hd_time \in 0..MaxStartTime
    /\ hd_save_at = NoTick
    /\ hd_entry_time = 0
    /\ hd_steps = 0
    /\ hd_saves = 0
    /\ hd_events = <<>>
    /\ hd_pc = "parse"
    /\ RootCauseOff
    /\ TurnOff
    /\ ParkingOff
    /\ BlockOff
    /\ EndpointOff

\* `let save_at = ...`, then the entry of the loop.
ParseSaveAt ==
    /\ hd_pc = "parse"
    /\ hd_save_at' = parse_save_at(hd_flag).save_at
    /\ hd_pc' = parse_save_at(hd_flag).pc
    /\ hd_entry_time' = hd_time
    /\ UNCHANGED <<hd_flag, hd_time, hd_steps, hd_saves, hd_events>>
    /\ UNCHANGED <<rcVars, trVars, pkVars, blVars, epVars>>

\* `sim.step(&map, &control_map)`: the time advances by one tick.
Step ==
    /\ hd_pc = "step"
    /\ hd_time < MaxTime
    /\ hd_time' = hd_time + 1
    /\ hd_steps' = hd_steps + 1
    /\ hd_events' = <<"step">>
    /\ hd_pc' = "status"
    /\ UNCHANGED <<hd_flag, hd_save_at, hd_entry_time, hd_saves>>
    /\ UNCHANGED <<rcVars, trVars, pkVars, blVars, epVars>>

\* `if sim.time.is_multiple_of(Tick::from_seconds(60)) { println!(..) }`
StatusCheck ==
    /\ hd_pc = "status"
    /\ hd_events' = IF is_multiple_of(hd_time, from_seconds(60))
                    THEN Append(hd_events, "status") ELSE hd_events
    /\ hd_pc' = "snapshot"
    /\ UNCHANGED <<hd_flag, hd_save_at, hd_time, hd_entry_time, hd_steps, hd_saves>>
    /\ UNCHANGED <<rcVars, trVars, pkVars, blVars, epVars>>

\* `if Some(sim.time) == save_at { sim.save(); }`, then the next iteration.
SnapshotCheck ==
    /\ hd_pc = "snapshot"
    /\ IF SnapshotDue(hd_time, hd_save_at)
       THEN hd_saves' = hd_saves + 1 /\ hd_events' = Append(hd_events, "save")
       ELSE UNCHANGED <<hd_saves, hd_events>>
    /\ hd_pc' = "step"
    /\ UNCHANGED <<hd_flag, hd_save_at, hd_time, hd_entry_time, hd_steps>>
    /\ UNCHANGED <<rcVars, trVars, pkVars, blVars, epVars>>

NextHeadless == ParseSaveAt \/ Step \/ StatusCheck \/ SnapshotCheck

SpecHeadless == InitHeadless /\ [][NextHeadless]_vars

\* main is one sequential thread: whatever statement is next is executed.
SpecHeadlessFair == SpecHeadless /\ WF_vars(NextHeadless)

(***************************************************************************)
(* Properties of the headless driver                                       *)
(***************************************************************************)

FlagGiven == hd_flag.tag = "Some"

\* C11: if a --save_at string is given and does not parse, main ends in a
\* panic and sim.step is never called, neither before nor after the parse.
C11_UnparseableIsFatal ==
    /\ (FlagGiven /\ ~ParsesAsTick(hd_flag.str)) =>
           /\ hd_steps = 0
           /\ hd_pc \in {"parse", "panic"}
    /\ hd_pc = "parse" => hd_steps = 0
    /\ hd_pc = "panic" => FlagGiven /\ ~ParsesAsTick(hd_flag.str) /\ hd_steps = 0

\* The string "6x": the parse has failed and main has panicked.
C11_Witness ==
    /\ hd_flag = SomeFlag(<<"6", "x">>)
    /\ hd_pc = "panic"
    /\ hd_steps = 0

IterationOrders ==
    {<<"step">>, <<"step", "status">>, <<"step", "save">>, <<"step", "status", "save">>}

Called(e) == \E k \in 1..Len(hd_events) : hd_events[k] = e

TargetReached == hd_save_at.tag = "Some" /\ hd_time = hd_save_at.t

\* C12: every iteration of the loop calls sim.step, then makes the status
\* check (printing when the time is a multiple of 60 s), then the snapshot
\* check; sim.save is called in exactly the iterations in which the time
\* after the step equals the target, it has returned when the next step is
\* called, and it is never called without a target.
C12_IterationOrder ==
    /\ hd_pc = "status" => hd_events = <<"step">>
    /\ hd_pc = "snapshot" =>
           /\ hd_events \in {<<"step">>, <<"step", "status">>}
           /\ Called("status") <=> is_multiple_of(hd_time, from_seconds(60))
    /\ (hd_pc = "step" /\ hd_steps > 0) =>
           /\ hd_events \in IterationOrders
           /\ Called("status") <=> is_multiple_of(hd_time, from_seconds(60))
           /\ Called("save") <=> TargetReached
    /\ hd_save_at.tag = "None" => hd_saves = 0 /\ ~Called("save")

\* The iteration that reaches 60 s with the target "60": step, status line,
\* save, and the next step not yet called.
C12_Witness ==
    /\ hd_flag = SomeFlag(<<"6", "0">>)
    /\ hd_pc = "step"
    /\ hd_time = 600
    /\ hd_events = <<"step", "status", "save">>
    /\ hd_saves = 1

LoopEntered == hd_pc \in {"step", "status", "snapshot"}

\* C17: with each step advancing the time by one tick, a target at or after
\* the time at loop entry leads to sim.save being called (and, the time only
\* growing, it has been called once an iteration has ended at or after the
\* target), and it is called once in the whole run; a target before the time
\* at loop entry never leads to a call of sim.save.
C17_SavedExactlyOnce ==
    /\ [](hd_saves <= 1)
    /\ []((/\ hd_pc = "step" /\ hd_steps > 0
           /\ hd_save_at.tag = "Some"
           /\ hd_save_at.t >= hd_entry_time
           /\ hd_time >= hd_save_at.t)
            => hd_saves = 1)
    /\ []((LoopEntered /\ hd_save_at.tag = "Some" /\ hd_save_at.t < hd_entry_time)
            => hd_saves = 0)
    /\ (LoopEntered /\ hd_save_at.tag = "Some" /\ hd_save_at.t >= hd_entry_time)
            ~> (hd_saves = 1)

(***************************************************************************)
(* Lane::endpoint and Lane::end_line (lane.rs)                             *)
(***************************************************************************)

\* Bound of the model: how many intersections there are to ask about.
MaxEndpointIntersections == 4

EndpointIntersections == 1..MaxEndpointIntersections

\* What is returned: which end of lane_center_pts the point or line is
\* taken from, and whether the line is reversed.
NoEndpoint == [of |-> "none", side |-> "none", reversed |-> FALSE]
FirstPt == [of |-> "pt", side |-> "first", reversed |-> FALSE]
LastPt == [of |-> "pt", side |-> "last", reversed |-> FALSE]
FirstLineReversed == [of |-> "line", side |-> "first", reversed |-> TRUE]
LastLine == [of |-> "line", side |-> "last", reversed |-> FALSE]
EndpointPanic == [of |-> "panic", side |-> "none", reversed |-> FALSE]

\* Lane::endpoint
endpointDstFirst(src_i, dst_i, i) ==
    IF i = dst_i THEN LastPt
    ELSE IF i = src_i THEN FirstPt
    ELSE EndpointPanic

endpoint(src_i, dst_i, i) ==
    IF i = src_i THEN FirstPt
    ELSE IF i = dst_i THEN LastPt
    ELSE EndpointPanic

\* Lane::end_line
end_line(src_i, dst_i, i) ==
    IF i = src_i THEN FirstLineReversed
    ELSE IF i = dst_i THEN LastLine
    ELSE EndpointPanic

InitEndpoint ==
    /\ ep_src_i \in EndpointIntersections
    /\ ep_dst_i \in EndpointIntersections
    /\ ep_i \in EndpointIntersections
    /\ ep_fn = "endpoint"
    /\ ep_result = NoEndpoint
    /\ ep_pc = "ready"
    /\ RootCauseOff
    /\ TurnOff
    /\ ParkingOff
    /\ BlockOff
    /\ HeadlessOff

\* lane.endpoint(i)
EndpointQuery ==
    /\ ep_pc = "ready"
    /\ ep_fn' = "endpoint"
    /\ ep_result' = endpoint(ep_src_i, ep_dst_i, ep_i)
    /\ ep_pc' = IF endpoint(ep_src_i, ep_dst_i, ep_i) = EndpointPanic THEN "panic" ELSE "done"
    /\ UNCHANGED <<ep_src_i, ep_dst_i, ep_i>>
    /\ UNCHANGED <<rcVars, trVars, pkVars, blVars, hdVars>>

\* lane.end_line(i)
EndLineQuery ==
    /\ ep_pc = "ready"
    /\ ep_fn' = "end_line"
    /\ ep_result' = end_line(ep_src_i, ep_dst_i, ep_i)
    /\ ep_pc' = IF end_line(ep_src_i, ep_dst_i, ep_i) = EndpointPanic THEN "panic" ELSE "done"
    /\ UNCHANGED <<ep_src_i, ep_dst_i, ep_i>>
    /\ UNCHANGED <<rcVars, trVars, pkVars, blVars, hdVars>>

NextEndpoint == EndpointQuery \/ EndLineQuery

SpecEndpoint == InitEndpoint /\ [][NextEndpoint]_vars

\* C13: endpoint(i) and end_line(i) give the point / line at the start of the
\* lane when i is its source intersection (also when source and destination
\* are the same), the point / line at its end when i is its destination
\* only, and panic, returning nothing, for every other i.
C13_EndpointOrPanic ==
    ep_pc \in {"done", "panic"} =>
        /\ ep_i = ep_src_i =>
               ep_pc = "done" /\ ep_result.side = "first"
        /\ (ep_i # ep_src_i /\ ep_i = ep_dst_i) =>
               ep_pc = "done" /\ ep_result.side = "last"
        /\ (ep_i # ep_src_i /\ ep_i # ep_dst_i) =>
               ep_pc = "panic" /\ ep_result = EndpointPanic
        /\ ep_pc = "done" =>
               ep_result.of = (IF ep_fn = "endpoint" THEN "pt" ELSE "line")

\* endpoint(i) asked of a lane for an intersection that is neither of its
\* ends.
C13_Witness ==
    /\ ep_pc = "panic"
    /\ ep_fn = "endpoint"
    /\ ep_i \notin {ep_src_i, ep_dst_i}
    /\ ep_src_i # ep_dst_i

====
